---- MODULE Spec2Model ----
(***************************************************************************)
(* Model of .github/workflows/sync.py, the weekly sync job of the SIGNAL   *)
(* TV tracker: load_db, check_season_updates (with tmdb_get and            *)
(* season_has_aired), generate_recommendations, save_db and main.          *)
(*                                                                         *)
(* Text (titles, ids) is a sequence of one-character strings, so that      *)
(* str.lower, str.strip and the slug regex are computed character by       *)
(* character.  An air date string "YYYY-MM-DD" is the tuple <<Y, M, D>> of *)
(* its three numeric fields; a tuple of another length is text that does   *)
(* not match the format, and <<>> is an absent or empty air_date.          *)
(***************************************************************************)
EXTENDS Integers, Sequences, FiniteSets, TLC

\* ------------------------------------------------------------------ bounds
\* Longest waiting_for_next_season list of an initial document.
MaxWaiting == 2
\* Largest number_of_seasons the metadata provider reports.
MaxSeasons == 3
\* Number of distinct never-tracked titles the generation provider may return.
NumFresh == 5
\* Number of scheduled invocations of main in SpecRuns.
MaxRuns == 2

\* ------------------------------------------------ absent values (dict.get)
\* A key that a dict does not hold: integers use a negative marker, strings a
\* marker no provider sends, text and dates the empty sequence.
NoInt == 0 - 1
NoStr == "<absent>"
NoText == <<>>

\* ------------------------------------------------------------------- text
LowerPairs ==
  { <<"D", "d">>, <<"K", "k">>, <<"M", "m">>, <<"S", "s">>, <<"O", "o">> }

\* str.lower on one character.
LowerChar(c) ==
  IF \E p \in LowerPairs : p[1] = c
  THEN (CHOOSE p \in LowerPairs : p[1] = c)[2]
  ELSE c

\* str.lower.
ToLower(s) == [n \in 1..Len(s) |-> LowerChar(s[n])]

\* The class [a-z0-9] of the slug regex.
IsSlugChar(c) ==
  c \in { "d", "k", "m", "s", "o", "0", "1", "2", "3", "4", "5", "6", "7", "8", "9" }

RECURSIVE LStrip(_, _)
LStrip(s, chars) ==
  IF s # <<>> /\ Head(s) \in chars THEN LStrip(Tail(s), chars) ELSE s

RECURSIVE RStrip(_, _)
RStrip(s, chars) ==
  IF s # <<>> /\ s[Len(s)] \in chars
  THEN RStrip(SubSeq(s, 1, Len(s) - 1), chars)
  ELSE s

\* str.strip(chars).
StripChars(s, chars) == RStrip(LStrip(s, chars), chars)

\* str.strip(): whitespace.
Strip(s) == StripChars(s, { " " })

\* re.sub(r'[^a-z0-9]+', '-', s): every maximal run of other characters
\* becomes one hyphen.
RECURSIVE SubRuns(_, _)
SubRuns(s, inRun) ==
  IF s = <<>> THEN <<>>
  ELSE IF IsSlugChar(Head(s)) THEN <<Head(s)>> \o SubRuns(Tail(s), FALSE)
  ELSE (IF inRun THEN <<>> ELSE <<"-">>) \o SubRuns(Tail(s), TRUE)

\* show_id = re.sub(r'[^a-z0-9]+', '-', title.lower()).strip('-')
Slug(title) == StripChars(SubRuns(ToLower(title), FALSE), { "-" })

\* ------------------------------------------------------------------ dates
DaysIn(y, m) ==
  IF m = 2 THEN (IF y % 4 = 0 /\ (y % 100 # 0 \/ y % 400 = 0) THEN 29 ELSE 28)
  ELSE IF m \in { 4, 6, 9, 11 } THEN 30 ELSE 31

\* datetime.strptime(s, '%Y-%m-%d') succeeds.
Parses(s) ==
  /\ Len(s) = 3
  /\ s[1] \in 1..9999
  /\ s[2] \in 1..12
  /\ s[3] \in 1..DaysIn(s[1], s[2])

\* date.__le__: year, then month, then day.
DateLeq(a, b) ==
  \/ a[1] < b[1]
  \/ a[1] = b[1] /\ a[2] < b[2]
  \/ a[1] = b[1] /\ a[2] = b[2] /\ a[3] <= b[3]

\* Dates datetime.now(timezone.utc).date() returns during the modelled runs;
\* every call of season_has_aired reads the clock afresh.
Today1 == <<2026, 11, 2>>
Today2 == <<2026, 11, 3>>
Todays == { Today1, Today2 }

\* air_date values of the season detail: absent, not in the format, not a
\* calendar date, a past year with a later month and day, and the day that is
\* tomorrow on Today1 and today on Today2.
AirDates ==
  { NoText, <<2026, 11>>, <<2026, 2, 30>>, <<2025, 12, 31>>, <<2026, 11, 3>> }

\* -------------------------------------------------------------- documents
\* Records of waiting_for_next_season an initial document is built from:
\* one with an external id and no seasons_watched, one without an external
\* id, one with an external id that has watched two seasons.
WaitDk ==
  [id |-> <<"d", "k">>, title |-> <<"D", "k">>, tmdb_id |-> 7,
   seasons_watched |-> NoInt, total_seasons |-> 1, show_status |-> "Continuing",
   network |-> "HBO", notes |-> "n"]
WaitM ==
  [id |-> <<"m">>, title |-> <<"M">>, tmdb_id |-> NoInt,
   seasons_watched |-> 1, total_seasons |-> 1, show_status |-> "Continuing",
   network |-> NoStr, notes |-> NoStr]
WaitK ==
  [id |-> <<"k">>, title |-> <<"K">>, tmdb_id |-> 9,
   seasons_watched |-> 2, total_seasons |-> 2, show_status |-> "Continuing",
   network |-> NoStr, notes |-> NoStr]
WaitPool == << WaitDk, WaitM, WaitK >>

\* A record of available_to_watch_next left by an earlier promotion of WaitDk.
AvailDk ==
  [id |-> <<"d", "k">>, title |-> <<"D", "k">>, tmdb_id |-> 7, next_season |-> 2,
   total_seasons |-> 1, show_status |-> "Continuing", network |-> "HBO",
   notes |-> "n"]

Watching == << [id |-> <<"o">>, title |-> <<"O">>] >>
Finished == << [id |-> <<"s", "0">>, title |-> <<"S", "0">>, rating |-> "Excellent"] >>
OldRec ==
  [id |-> <<"o", "0">>, title |-> <<"O", "0">>, tmdb_id |-> 1, total_seasons |-> 1,
   show_status |-> "Ended", network |-> "", reason |-> ""]

\* The elements of pool at the positions in picks, in pool order.
RECURSIVE Pick(_, _)
Pick(pool, picks) ==
  IF pool = <<>> THEN <<>>
  ELSE (IF Len(pool) \in picks THEN Pick(SubSeq(pool, 1, Len(pool) - 1), picks)
                                      \o << pool[Len(pool)] >>
        ELSE Pick(SubSeq(pool, 1, Len(pool) - 1), picks))

\* The subsequences of pool of length at most n.
SubSeqs(pool, n) ==
  { Pick(pool, picks) :
    picks \in { P \in SUBSET (1..Len(pool)) : Cardinality(P) <= n } }

Range(s) == { s[n] : n \in 1..Len(s) }
Ids(list) == { list[n].id : n \in 1..Len(list) }
NoRepeatIds(list) == \A m, n \in 1..Len(list) : m # n => list[m].id # list[n].id

\* The documents a run may find on disk.  Each list holds an id at most once,
\* waiting_for_next_season in the order of WaitPool;
\* WaitDk may be in waiting_for_next_season while AvailDk is in
\* available_to_watch_next (the case lines 123-125 guard against).
Docs ==
  { [watching_now |-> Watching,
     finished_watching |-> Finished,
     series_to_explore |-> <<>>,
     available_to_watch_next |-> a,
     waiting_for_next_season |-> w,
     claude_recommendations |-> r,
     last_updated |-> 0] :
    w \in SubSeqs(WaitPool, MaxWaiting),
    a \in { <<>>, <<AvailDk>> },
    r \in { <<OldRec>> } }

EmptyDoc ==
  [watching_now |-> <<>>, finished_watching |-> <<>>, series_to_explore |-> <<>>,
   available_to_watch_next |-> <<>>, waiting_for_next_season |-> <<>>,
   claude_recommendations |-> <<>>, last_updated |-> 0]

ListNames ==
  << "watching_now", "available_to_watch_next", "waiting_for_next_season",
     "series_to_explore", "claude_recommendations", "finished_watching" >>

\* -------------------------------------------------------------- providers
\* A reply to requests.get: err is a raised network exception (connection
\* error, timeout), with no response; otherwise status_code and, with 200,
\* the decoded body.  A body without the status key reports one season or no
\* count; a body with it reports any count or none.
ShowReplies ==
  { r \in [err : BOOLEAN, status_code : { 0, 200, 404 },
           number_of_seasons : { NoInt } \cup 1..MaxSeasons,
           status : { NoStr, "Ended" }] :
    /\ r.err <=> r.status_code = 0
    /\ r.status_code # 200 => r.number_of_seasons = NoInt /\ r.status = NoStr
    /\ r.status = NoStr => r.number_of_seasons \in { NoInt, 1 } }

SeasonReplies ==
  { r \in [err : BOOLEAN, status_code : { 0, 200, 404 }, air_date : AirDates] :
    /\ r.err <=> r.status_code = 0
    /\ r.status_code # 200 => r.air_date = NoText }

\* ------------------------------------------------------------------ state
VARIABLES
  pc,                 \* position in main: "start", "check", "generate",
                      \* "candidates", "save", "done", "crashed"
  disk,               \* the document in SHOWS_FILE
  diskOk,             \* SHOWS_FILE exists and holds JSON
  db,                 \* the document in memory
  TMDB_TOKEN,         \* the credential is set (non-empty)
  ANTHROPIC_KEY,      \* the API key is set (non-empty)
  i,                  \* check_season_updates: index of the next show in waiting
  still_waiting,      \* check_season_updates: local list
  moved_to_available, \* check_season_updates: local list
  k,                  \* generate_recommendations: elements of CandPool passed
  clean,              \* generate_recommendations: local list
  seen,               \* generate_recommendations: local set
  runs,               \* invocations of main started so far
  loaded,             \* history: the document as load_db returned it
  checked,            \* history: the document as check_season_updates left it
  obs,                \* history: per waiting id, what the provider answered
  gen,                \* history: how generate_recommendations ended
  trace,              \* history: the steps of main completed in this run
  uniqueStart         \* history: the first document held every id once

vars ==
  << pc, disk, diskOk, db, TMDB_TOKEN, ANTHROPIC_KEY, i, still_waiting,
     moved_to_available, k, clean, seen, runs, loaded, checked, obs, gen, trace,
     uniqueStart >>

config == << disk, diskOk, TMDB_TOKEN, ANTHROPIC_KEY, runs, uniqueStart >>
checkLocals == << i, still_waiting, moved_to_available >>
genLocals == << k, clean, seen >>

WaitIds == Ids(WaitPool)

NoObs ==
  [show |-> "none", total |-> NoInt, status |-> NoStr, next |-> NoInt,
   season |-> "none", air |-> NoText, now |-> NoText]

\* No id is held twice, in one list or in two.
AllIdsUnique(doc) ==
  /\ \A n \in 1..Len(ListNames) : NoRepeatIds(doc[ListNames[n]])
  /\ \A m, n \in 1..Len(ListNames) :
       m # n => Ids(doc[ListNames[m]]) \cap Ids(doc[ListNames[n]]) = {}

Init ==
  /\ pc = "start"
  /\ disk \in Docs
  /\ diskOk \in BOOLEAN
  /\ db = EmptyDoc
  /\ TMDB_TOKEN \in BOOLEAN
  /\ ANTHROPIC_KEY \in BOOLEAN
  /\ i = 0
  /\ still_waiting = <<>>
  /\ moved_to_available = <<>>
  /\ k = 0
  /\ clean = <<>>
  /\ seen = {}
  /\ runs = 0
  /\ loaded = EmptyDoc
  /\ checked = EmptyDoc
  /\ obs = [id \in WaitIds |-> NoObs]
  /\ gen = "none"
  /\ trace = <<>>
  /\ uniqueStart = AllIdsUnique(disk)

\* An exception that leaves main ends the process: its locals are gone.
ProcessDies ==
  /\ pc' = "crashed"
  /\ i' = 0
  /\ still_waiting' = <<>>
  /\ moved_to_available' = <<>>
  /\ k' = 0
  /\ clean' = <<>>
  /\ seen' = {}

\* ------------------------------------------------------------------ load_db
\* main, line 257: db = load_db().
LoadOk ==
  /\ pc = "start"
  /\ diskOk
  /\ db' = disk
  /\ loaded' = disk
  /\ runs' = runs + 1
  /\ trace' = << "load" >>
  /\ i' = 1
  /\ pc' = "check"
  /\ UNCHANGED << disk, diskOk, TMDB_TOKEN, ANTHROPIC_KEY, uniqueStart >>
  /\ UNCHANGED << still_waiting, moved_to_available, genLocals, checked, obs, gen >>

\* open() or json.load raises: main ends with the exception.
LoadFail ==
  /\ pc = "start"
  /\ ~diskOk
  /\ runs' = runs + 1
  /\ ProcessDies
  /\ UNCHANGED << disk, diskOk, TMDB_TOKEN, ANTHROPIC_KEY, uniqueStart >>
  /\ UNCHANGED << db, loaded, checked, obs, gen, trace >>

\* --------------------------------------------------------------- tmdb_get
\* `if not tmdb_id`: None and 0 are falsy.
Falsy(n) == n = NoInt \/ n = 0

\* requests.get raises (only reached with a token set).
TmdbRaises(token, reply) == token /\ reply.err

\* tmdb_get returns the decoded body (TRUE) or None (FALSE).
TmdbGet(token, reply) == token /\ reply.status_code = 200

\* ------------------------------------------------------- season_has_aired
SeasonHasAiredStrict(got, reply, now) ==
  /\ got
  /\ reply.air_date # NoText
  /\ Parses(reply.air_date)
  /\ DateLeq(reply.air_date, now) /\ reply.air_date # now

\* Lines 57-70, given the result of tmdb_get and the clock.
SeasonHasAired(got, reply, now) ==
  /\ got
  /\ reply.air_date # NoText
  /\ Parses(reply.air_date)
  /\ DateLeq(reply.air_date, now)

\* --------------------------------------------------- check_season_updates
Default(v, absent, d) == IF v = absent THEN d ELSE v

NextSeasonExistsLoose(tmdb_total, next_season) == tmdb_total >= next_season - 1

\* Line 100.
NextSeasonExists(tmdb_total, next_season) == tmdb_total >= next_season

WriteBackStatusOnly(show, tmdb_total, tmdb_status) ==
  [show EXCEPT !.show_status = tmdb_status]

\* Lines 97-98.
WriteBack(show, tmdb_total, tmdb_status) ==
  [show EXCEPT !.total_seasons = tmdb_total, !.show_status = tmdb_status]

\* Lines 104-113.
Promoted(show, tmdb_id, next_season, tmdb_total, tmdb_status) ==
  [id |-> show.id, title |-> show.title, tmdb_id |-> tmdb_id,
   next_season |-> next_season, total_seasons |-> tmdb_total,
   show_status |-> tmdb_status,
   network |-> Default(show.network, NoStr, ""),
   notes |-> Default(show.notes, NoStr, "")]

Looping == pc = "check" /\ i <= Len(db.waiting_for_next_season)

CheckFrame ==
  UNCHANGED << config, genLocals, loaded, checked, gen, trace >>

\* Lines 78-82: no external identifier.
CheckNoId ==
  /\ Looping
  /\ LET show == db.waiting_for_next_season[i] IN
       /\ Falsy(show.tmdb_id)
       /\ still_waiting' = Append(still_waiting, show)
       /\ obs' = [obs EXCEPT ![show.id] = [NoObs EXCEPT !.show = "noid"]]
  /\ i' = i + 1
  /\ UNCHANGED << pc, db, moved_to_available >>
  /\ CheckFrame

\* Line 85: requests.get raises inside tmdb_get; nothing catches it.
CheckFetchRaises ==
  /\ Looping
  /\ LET show == db.waiting_for_next_season[i] IN
       /\ ~Falsy(show.tmdb_id)
       /\ \E reply \in ShowReplies : TmdbRaises(TMDB_TOKEN, reply)
       /\ obs' = [obs EXCEPT ![show.id] = [NoObs EXCEPT !.show = "raised"]]
  /\ ProcessDies
  /\ UNCHANGED << config, db, loaded, checked, gen, trace >>

\* Lines 85-90: tmdb_get returns None (no token, or a non-200 response).
CheckFetchNone ==
  /\ Looping
  /\ LET show == db.waiting_for_next_season[i] IN
       /\ ~Falsy(show.tmdb_id)
       /\ \E reply \in ShowReplies :
            /\ ~TmdbRaises(TMDB_TOKEN, reply)
            /\ ~TmdbGet(TMDB_TOKEN, reply)
       /\ still_waiting' = Append(still_waiting, show)
       /\ obs' = [obs EXCEPT ![show.id] = [NoObs EXCEPT !.show = "failed"]]
  /\ i' = i + 1
  /\ UNCHANGED << pc, db, moved_to_available >>
  /\ CheckFrame

\* Lines 92-119: the show detail arrived.
CheckFetched ==
  /\ Looping
  /\ LET show == db.waiting_for_next_season[i] IN
       /\ ~Falsy(show.tmdb_id)
       /\ \E reply \in ShowReplies, sreply \in SeasonReplies, now \in Todays :
            /\ ~TmdbRaises(TMDB_TOKEN, reply)
            /\ TmdbGet(TMDB_TOKEN, reply)
            /\ LET tmdb_total ==
                     Default(reply.number_of_seasons, NoInt,
                             Default(show.total_seasons, NoInt, 1))
                   tmdb_status ==
                     Default(reply.status, NoStr,
                             Default(show.show_status, NoStr, "Continuing"))
                   seasons_watched == Default(show.seasons_watched, NoInt, 1)
                   next_season == seasons_watched + 1
                   written == WriteBack(show, tmdb_total, tmdb_status)
                   answered ==
                     [NoObs EXCEPT !.show = "ok",
                                   !.total = reply.number_of_seasons,
                                   !.status = reply.status,
                                   !.next = next_season]
               IN
               /\ db' = [db EXCEPT !.waiting_for_next_season[i] = written]
               /\ IF ~NextSeasonExists(tmdb_total, next_season)
                  THEN \* lines 117-119
                       /\ still_waiting' = Append(still_waiting, written)
                       /\ obs' = [obs EXCEPT ![show.id] = answered]
                       /\ i' = i + 1
                       /\ UNCHANGED << pc, moved_to_available, genLocals >>
                  ELSE IF TmdbRaises(TMDB_TOKEN, sreply)
                  THEN \* line 55: requests.get raises; nothing catches it
                       /\ obs' = [obs EXCEPT ![show.id] =
                                    [answered EXCEPT !.season = "raised"]]
                       /\ ProcessDies
                  ELSE LET got == TmdbGet(TMDB_TOKEN, sreply) IN
                       /\ obs' = [obs EXCEPT ![show.id] =
                                    IF got
                                    THEN [answered EXCEPT
                                            !.season = "ok",
                                            !.air = sreply.air_date,
                                            !.now = IF Parses(sreply.air_date)
                                                    THEN now ELSE NoText]
                                    ELSE [answered EXCEPT !.season = "failed"]]
                       /\ IF SeasonHasAired(got, sreply, now)
                          THEN /\ moved_to_available' =
                                    Append(moved_to_available,
                                           Promoted(show, show.tmdb_id, next_season,
                                                    tmdb_total, tmdb_status))
                               /\ UNCHANGED still_waiting
                          ELSE /\ still_waiting' = Append(still_waiting, written)
                               /\ UNCHANGED moved_to_available
                       /\ i' = i + 1
                       /\ UNCHANGED << pc, genLocals >>
  /\ UNCHANGED << config, loaded, checked, gen, trace >>

NewWaitingKept(waiting, still) == waiting

\* Line 121: db['waiting_for_next_season'] = still_waiting.
NewWaiting(waiting, still) == still

InsertPromotedUnguarded(available, moved) == available \o moved

\* Lines 123-127: existing_ids is read once, before the loop.
InsertPromoted(available, moved) ==
  LET existing_ids == Ids(available)
      Fresh(s) == s.id \notin existing_ids
  IN  available \o SelectSeq(moved, Fresh)

\* Lines 121-129: the loop over waiting is exhausted.
CheckDone ==
  /\ pc = "check"
  /\ i > Len(db.waiting_for_next_season)
  /\ db' = [db EXCEPT
              !.waiting_for_next_season =
                 NewWaiting(db.waiting_for_next_season, still_waiting),
              !.available_to_watch_next =
                 InsertPromoted(db.available_to_watch_next, moved_to_available)]
  /\ checked' = db'
  /\ trace' = Append(trace, "check")
  /\ pc' = "generate"
  /\ UNCHANGED << config, checkLocals, genLocals, loaded, obs, gen >>

\* ----------------------------------------------- generate_recommendations
\* Lines 175-179.
AllTitles(doc) ==
  UNION { { ToLower(doc[ListNames[n]][m].title) :
            m \in 1..Len(doc[ListNames[n]]) } :
          n \in 1..Len(ListNames) }

\* What client.messages.create may do: raise (network, authentication, empty
\* content), or return text whose body is not JSON, a JSON array, a JSON
\* object or a JSON number, opened by nothing, by a fence with the json tag or
\* by a bare fence, and closed by nothing or by a fence.
GenReplies ==
  { [err |-> e, open |-> o, close |-> c, body |-> b] :
    e \in BOOLEAN, o \in { "", "fence json", "fence" }, c \in { "", "fence" },
    b \in { "text", "array", "object", "number" } }

\* Lines 220-222: strip(), then the two re.sub calls; the fence that is left.
Unfenced(reply) ==
  [reply EXCEPT !.open = IF reply.open = "fence json" THEN "" ELSE reply.open,
                !.close = ""]

\* Line 223: json.loads accepts the text.
JsonLoads(reply) == reply.open = "" /\ reply.close = "" /\ reply.body # "text"

Digit == << "1", "2", "3", "4", "5", "6", "7", "8", "9" >>

\* The elements a returned array is drawn from, in the order they appear in it:
\* an object without title; a tracked title in another case; a new title whose
\* slug is a tracked id; a new title with surrounding blanks and lower case;
\* NumFresh new titles; an object whose title is null; an element that is not
\* an object.
CandPool ==
  << [kind |-> "object", title |-> NoText, show_status |-> NoStr],
     [kind |-> "object", title |-> <<"d", "K">>, show_status |-> NoStr],
     [kind |-> "object", title |-> <<"D", "k", "!">>, show_status |-> "Continuing"],
     [kind |-> "object", title |-> <<" ", "s", "1", " ">>, show_status |-> NoStr] >>
  \o [n \in 1..NumFresh |->
        [kind |-> "object", title |-> <<"S", Digit[n]>>, show_status |-> NoStr]]
  \o << [kind |-> "null-title", title |-> NoText, show_status |-> NoStr],
        [kind |-> "not-object", title |-> NoText, show_status |-> NoStr] >>

\* Lines 237-245.
Cleaned(el, title) ==
  [id |-> Slug(title), title |-> title, tmdb_id |-> NoInt, total_seasons |-> NoInt,
   show_status |-> Default(el.show_status, NoStr, "Ended"),
   network |-> "", reason |-> ""]

TruncateNone(list) == list

\* Line 248: clean[:5].
Truncate(list) == SubSeq(list, 1, IF Len(list) < 5 THEN Len(list) ELSE 5)

\* Line 248: db['claude_recommendations'] = clean[:5].
Replace(old, list) == Truncate(list)

\* The locals of check_season_updates are gone once the next call starts.
DropCheckLocals ==
  /\ i' = 0
  /\ still_waiting' = <<>>
  /\ moved_to_available' = <<>>
  /\ obs' = [id \in WaitIds |-> NoObs]

\* Lines 165-167.
GenSkip ==
  /\ pc = "generate"
  /\ ~ANTHROPIC_KEY
  /\ gen' = "skipped"
  /\ trace' = Append(trace, "generate")
  /\ pc' = "save"
  /\ DropCheckLocals
  /\ UNCHANGED << config, db, genLocals, loaded, checked >>

\* Lines 214-226: the call or json.loads raises; the except clause returns.
GenCallFails ==
  /\ pc = "generate"
  /\ ANTHROPIC_KEY
  /\ \E reply \in GenReplies : reply.err \/ ~JsonLoads(Unfenced(reply))
  /\ gen' = "failed"
  /\ trace' = Append(trace, "generate")
  /\ pc' = "save"
  /\ DropCheckLocals
  /\ UNCHANGED << config, db, genLocals, loaded, checked >>

\* Line 231: the JSON is a number (not iterable) or an object (iterating
\* yields its keys, and str has no get): the exception leaves main.
GenCallNotArray ==
  /\ pc = "generate"
  /\ ANTHROPIC_KEY
  /\ \E reply \in GenReplies :
       /\ ~reply.err
       /\ JsonLoads(Unfenced(reply))
       /\ reply.body \in { "object", "number" }
  /\ gen' = "not an array"
  /\ ProcessDies
  /\ obs' = [id \in WaitIds |-> NoObs]
  /\ UNCHANGED << config, db, loaded, checked, trace >>

\* Lines 223-229: the JSON is an array.
GenCallArray ==
  /\ pc = "generate"
  /\ ANTHROPIC_KEY
  /\ \E reply \in GenReplies :
       /\ ~reply.err
       /\ JsonLoads(Unfenced(reply))
       /\ reply.body = "array"
  /\ clean' = <<>>
  /\ seen' = AllTitles(db)
  /\ k' = 0
  /\ pc' = "candidates"
  /\ DropCheckLocals
  /\ UNCHANGED << config, db, loaded, checked, gen, trace >>

\* Lines 231-246: the next element of the array, an object with a string (or
\* no) title.
GenCandidate ==
  /\ pc = "candidates"
  /\ \E n \in (k + 1)..Len(CandPool) :
       LET el == CandPool[n]
           title == Strip(el.title)
       IN
       /\ el.kind = "object"
       /\ k' = n
       /\ IF title = <<>> \/ ToLower(title) \in seen
          THEN UNCHANGED << clean, seen >>
          ELSE /\ clean' = Append(clean, Cleaned(el, title))
               /\ seen' = seen \cup { ToLower(title) }
  /\ UNCHANGED << config, pc, db, checkLocals, loaded, checked, obs, gen, trace >>

\* Line 232: r.get on an element that is not an object, or strip on a null
\* title: the exception leaves main.
GenCandidateRaises ==
  /\ pc = "candidates"
  /\ \E n \in (k + 1)..Len(CandPool) : CandPool[n].kind # "object"
  /\ gen' = "malformed element"
  /\ ProcessDies
  /\ UNCHANGED << config, db, loaded, checked, obs, trace >>

\* Lines 248-251: the array is exhausted.
GenDone ==
  /\ pc = "candidates"
  /\ db' = [db EXCEPT !.claude_recommendations =
                         Replace(db.claude_recommendations, clean)]
  /\ gen' = "ok"
  /\ trace' = Append(trace, "generate")
  /\ pc' = "save"
  /\ UNCHANGED << config, checkLocals, genLocals, loaded, checked, obs >>

\* ------------------------------------------------------------------ save_db
\* Lines 28-32 and main's return; the timestamp is the invocation's number.
Save ==
  /\ pc = "save"
  /\ db' = [db EXCEPT !.last_updated = runs]
  /\ disk' = db'
  /\ trace' = Append(trace, "save")
  /\ pc' = "done"
  /\ k' = 0
  /\ clean' = <<>>
  /\ seen' = {}
  /\ UNCHANGED << diskOk, TMDB_TOKEN, ANTHROPIC_KEY, runs, uniqueStart >>
  /\ UNCHANGED << checkLocals, loaded, checked, obs, gen >>

\* The scheduler starts the job again: a new process, the same file and
\* environment.
Rerun ==
  /\ pc \in { "done", "crashed" }
  /\ runs < MaxRuns
  /\ pc' = "start"
  /\ db' = EmptyDoc
  /\ loaded' = EmptyDoc
  /\ checked' = EmptyDoc
  /\ obs' = [id \in WaitIds |-> NoObs]
  /\ gen' = "none"
  /\ trace' = <<>>
  /\ UNCHANGED << config, checkLocals, genLocals >>

\* --------------------------------------------------------- specifications
Check == CheckNoId \/ CheckFetchRaises \/ CheckFetchNone \/ CheckFetched \/ CheckDone

Generate ==
  \/ GenSkip \/ GenCallFails \/ GenCallNotArray \/ GenCallArray
  \/ GenCandidate \/ GenCandidateRaises \/ GenDone

\* One invocation of main, on any document and environment.
Next == LoadOk \/ LoadFail \/ Check \/ Generate \/ Save

Spec == Init /\ [][Next]_vars

\* Scheduled invocations, one after the other, of a deployment without the
\* generation key.
InitRuns == Init /\ ~ANTHROPIC_KEY

NextRuns == LoadOk \/ LoadFail \/ Check \/ GenSkip \/ Save \/ Rerun

SpecRuns == InitRuns /\ [][NextRuns]_vars

\* ------------------------------------------------------------- properties
Waiting(doc) == doc.waiting_for_next_season
Available(doc) == doc.available_to_watch_next
Recs(doc) == doc.claude_recommendations

\* The records of list that carry id, in list order.
WithId(list, id) == LET Same(s) == s.id = id IN SelectSeq(list, Same)

\* check_season_updates has just returned.
AfterChecker == pc = "generate"

\* The ordinal of a calendar date, for comparing two dates as numbers.
DayNumber(d) == d[1] * 10000 + d[2] * 100 + d[3]

\* seasons_watched + 1 of the record the run loaded, 1 standing for an absent
\* seasons_watched.
NextOf(id) ==
  LET sw == WithId(Waiting(loaded), id)[1].seasons_watched
  IN  (IF sw = NoInt THEN 1 ELSE sw) + 1

\* The show is in waiting and the run put no record of it into available.
StaysWaiting(id) ==
  /\ id \in Ids(Waiting(db))
  /\ WithId(Available(db), id) = WithId(Available(loaded), id)

\* The show left waiting and is in available.
IsPromoted(id) ==
  /\ id \notin Ids(Waiting(db))
  /\ id \in Ids(Available(db))

\* The provider said the next season exists and sent a parseable air date.
AirDateKnown(id) ==
  /\ obs[id].show = "ok"
  /\ obs[id].total # NoInt
  /\ obs[id].total >= NextOf(id)
  /\ obs[id].season = "ok"
  /\ Parses(obs[id].air)

\* C1: after a Checker run, a waiting show whose next season exists and has a
\* parseable air date stays in waiting_for_next_season, unpromoted, if that
\* date is strictly after the current UTC date, and is promoted to
\* available_to_watch_next if the date is the current date or earlier.
C1_AirDateGate ==
  AfterChecker =>
    \A id \in Ids(Waiting(loaded)) :
      AirDateKnown(id) =>
        IF DayNumber(obs[id].air) > DayNumber(obs[id].now)
        THEN StaysWaiting(id)
        ELSE IsPromoted(id)

\* One show promoted on its air date, another kept because it airs tomorrow.
C1_Witness ==
  /\ AfterChecker
  /\ \E id \in Ids(Waiting(loaded)) :
       AirDateKnown(id) /\ obs[id].air = obs[id].now /\ IsPromoted(id)
  /\ \E id \in Ids(Waiting(loaded)) :
       /\ AirDateKnown(id)
       /\ DayNumber(obs[id].air) = DayNumber(obs[id].now) + 1
       /\ StaysWaiting(id)

\* The provider reported a season count below seasons_watched + 1.
NoNextSeason(id) ==
  /\ obs[id].show = "ok"
  /\ obs[id].total # NoInt
  /\ obs[id].total < NextOf(id)

\* C2: after a Checker run, a waiting show whose provider-reported season
\* count is less than seasons_watched + 1 (1 for an absent seasons_watched)
\* is still in waiting_for_next_season and no record of it was added to
\* available_to_watch_next.
C2_NoSeasonNoPromotion ==
  AfterChecker =>
    \A id \in Ids(Waiting(loaded)) : NoNextSeason(id) => StaysWaiting(id)

\* A show without seasons_watched for which the provider reports one season,
\* and a show that watched two for which it reports two.
C2_Witness ==
  /\ AfterChecker
  /\ \E id \in Ids(Waiting(loaded)) :
       /\ NoNextSeason(id)
       /\ WithId(Waiting(loaded), id)[1].seasons_watched = NoInt
  /\ \E id \in Ids(Waiting(loaded)) :
       /\ NoNextSeason(id)
       /\ WithId(Waiting(loaded), id)[1].seasons_watched = 2
       /\ obs[id].total = 2

\* C3: from a first document whose ids are unique, after every Checker run
\* each id that was in waiting_for_next_season before the run is in exactly
\* one of waiting_for_next_season and available_to_watch_next, and no id is in
\* both lists.
C3_MoveNotCopy ==
  (uniqueStart /\ pc \in { "generate", "save", "done" }) =>
    /\ \A id \in Ids(Waiting(loaded)) :
         (id \in Ids(Waiting(db))) # (id \in Ids(Available(db)))
    /\ Ids(Waiting(db)) \cap Ids(Available(db)) = {}

\* The second run promotes a show that the first run kept waiting, next to a
\* show that stays.
C3_Witness ==
  /\ uniqueStart
  /\ pc = "done"
  /\ runs = 2
  /\ Len(Waiting(loaded)) = 2
  /\ Len(Waiting(db)) = 1
  /\ \E id \in Ids(Waiting(loaded)) : IsPromoted(id)

\* C4 as stated: a show-detail fetch that fails (network error or non-200
\* response) never halts the run, and the record is carried over unchanged.
C4_FetchFailureCarriesOver ==
  \A id \in WaitIds :
    obs[id].show \in { "raised", "failed" } =>
      /\ pc # "crashed"
      /\ AfterChecker =>
           WithId(Waiting(db), id) = WithId(Waiting(loaded), id)

\* The lists of doc, without the timestamp.
Lists(doc) == [n \in 1..Len(ListNames) |-> doc[ListNames[n]]]

GenFailed == gen \in { "failed", "not an array", "malformed element" }

\* C5 as stated: when the generation step fails for any reason, every
\* collection is as the Checker left it and the document is still saved.
C5_GenFailureStillSaves ==
  GenFailed =>
    /\ Lists(db) = Lists(checked)
    /\ pc \in { "done", "crashed" } =>
         (Lists(disk) = Lists(checked) /\ disk.last_updated = runs)

AllIds(doc) == UNION { Ids(doc[ListNames[n]]) : n \in 1..Len(ListNames) }

\* C6 as stated: after a successful generation no recommendation has the id
\* or the lowercased title of a show tracked before the step, or of another
\* recommendation of the batch.
C6_NoDuplicateIdOrTitle ==
  (pc = "save" /\ gen = "ok") =>
    /\ \A n \in 1..Len(Recs(db)) :
         /\ Recs(db)[n].id \notin AllIds(checked)
         /\ ToLower(Recs(db)[n].title) \notin AllTitles(checked)
    /\ \A m, n \in 1..Len(Recs(db)) :
         m # n => /\ Recs(db)[m].id # Recs(db)[n].id
                  /\ ToLower(Recs(db)[m].title) # ToLower(Recs(db)[n].title)

PoolIndex(title) == CHOOSE n \in 1..Len(CandPool) : Strip(CandPool[n].title) = title

\* C8: after a successful generation claude_recommendations is the accepted
\* candidates, in response order, cut to the first five: at most five
\* records, none of them kept from the previous contents.
C8_ReplacedAndCapped ==
  (pc = "save" /\ gen = "ok") =>
    /\ Len(Recs(db)) <= 5
    /\ Len(Recs(db)) = (IF Len(clean) <= 5 THEN Len(clean) ELSE 5)
    /\ \A n \in 1..Len(Recs(db)) :
         /\ Recs(db)[n] = clean[n]
         /\ Recs(db)[n] \notin Range(Recs(checked))
    /\ \A m, n \in 1..Len(clean) :
         m < n => PoolIndex(clean[m].title) < PoolIndex(clean[n].title)

\* Six candidates were accepted while an earlier recommendation was stored.
C8_Witness ==
  /\ pc = "save"
  /\ gen = "ok"
  /\ Len(clean) > 5
  /\ Len(Recs(checked)) > 0

\* C9 as stated: a run whose document cannot be loaded ends before any step
\* and without a write-back; every other run ends having done load, Checker,
\* Generator and save, in that order and once each.
C9_OrderAndSave ==
  pc \in { "done", "crashed" } =>
    IF diskOk
    THEN trace = << "load", "check", "generate", "save" >>
    ELSE trace = <<>> /\ db = EmptyDoc

\* The provider reported a season count and a status for the show.
Reported(id) ==
  /\ obs[id].show = "ok"
  /\ obs[id].total # NoInt
  /\ obs[id].status # NoStr

Agrees(rec, id) ==
  rec.total_seasons = obs[id].total /\ rec.show_status = obs[id].status

AllAgree(list, id) ==
  \A n \in 1..Len(list) : list[n].id = id => Agrees(list[n], id)

\* C10 as stated: after a Checker run the record of a show whose detail fetch
\* succeeded, in waiting_for_next_season if it stayed and in
\* available_to_watch_next if it was promoted, has the provider-reported
\* total_seasons and show_status.
C10_AsStated ==
  AfterChecker =>
    \A id \in Ids(Waiting(loaded)) :
      Reported(id) =>
        IF id \in Ids(Waiting(db))
        THEN AllAgree(Waiting(db), id)
        ELSE AllAgree(Available(db), id)

\* C10, amended: the record has the provider-reported total_seasons and
\* show_status if the show stayed in waiting_for_next_season or its promoted
\* copy was inserted into available_to_watch_next; a record of the same id
\* that was already in available_to_watch_next keeps the values it had.
C10_WriteBack ==
  AfterChecker =>
    \A id \in Ids(Waiting(loaded)) :
      Reported(id) =>
        IF id \in Ids(Waiting(db))
        THEN AllAgree(Waiting(db), id)
        ELSE IF id \in Ids(Available(loaded))
        THEN WithId(Available(db), id) = WithId(Available(loaded), id)
        ELSE IsPromoted(id) /\ AllAgree(Available(db), id)

\* A show that was not promoted has a new total_seasons and show_status, and
\* another one was inserted into available_to_watch_next.
C10_Witness ==
  /\ AfterChecker
  /\ \E id \in Ids(Waiting(loaded)) :
       /\ Reported(id)
       /\ id \in Ids(Waiting(db))
       /\ WithId(Waiting(loaded), id)[1].total_seasons # obs[id].total
       /\ WithId(Waiting(loaded), id)[1].show_status # obs[id].status
  /\ \E id \in Ids(Waiting(loaded)) :
       Reported(id) /\ IsPromoted(id) /\ id \notin Ids(Available(loaded))

====
